---- MODULE Spec2Model ----
(***************************************************************************)
(* Model of src/script.js (adityamkk/planetary-motion): a 2-D gravitational *)
(* N-body simulation.  The file holds two revisions of the script one after *)
(* the other: the first (lines 1-334) starts loop() at load time, the       *)
(* second (lines 335-825) places bodies with the keyboard and starts loop() *)
(* on Enter.  Definitions ending in 1 model the first revision.             *)
(*                                                                          *)
(* Numbers.  A JavaScript number is modelled as a decimal fixed-point       *)
(* integer: the integer n stands for n / Scale, and every operation rounds  *)
(* toward zero.  The IEEE-754 values Infinity, -Infinity and NaN are the    *)
(* reserved integers PosInf, NegInf and NaN, with the arithmetic and the    *)
(* comparisons IEEE-754 gives them; the sign of zero is not modelled.       *)
(* Angles are integers in tenths of a degree (PI = 1800).  Masses span 13   *)
(* decades and are kept exactly, as decimal numbers m * 10^e.               *)
(***************************************************************************)
EXTENDS Integers, Sequences, FiniteSets, TLC

(***************************************************************************)
(* Bounds of the model.                                                     *)
(***************************************************************************)
MaxStars == 2
MaxPlanets == 1
MaxTicks == 2
MaxCursor == 1

(***************************************************************************)
(* Numbers                                                                  *)
(***************************************************************************)
Scale == 10 * 10
PosInf == 2 * 10^9
NegInf == -PosInf
NaN == PosInf + 1

Abs(a) == IF a < 0 THEN -a ELSE a
Sgn(a) == IF a < 0 THEN -1 ELSE IF a > 0 THEN 1 ELSE 0
IsNaN(a) == a = NaN
IsInf(a) == a = PosInf \/ a = NegInf
IsFinite(a) == ~IsNaN(a) /\ ~IsInf(a)
Num(n) == n * Scale

\* a + b
Add(a, b) ==
    IF IsNaN(a) \/ IsNaN(b) THEN NaN
    ELSE IF IsInf(a) THEN (IF IsInf(b) /\ a # b THEN NaN ELSE a)
    ELSE IF IsInf(b) THEN b
    ELSE a + b

Neg(a) == IF IsNaN(a) THEN NaN ELSE -a

\* a - b
Sub(a, b) == Add(a, Neg(b))

\* |a| * |b| / Scale for finite a, b, without an intermediate overflow; the
\* product of two non-zero numbers is not rounded to zero, as no product of
\* the script underflows in IEEE-754 arithmetic
MulMag(a, b) ==
    LET p == (a \div Scale) * b + ((a % Scale) * b) \div Scale
    IN  IF p = 0 /\ a # 0 /\ b # 0 THEN 1 ELSE p

\* a * b
Mul(a, b) ==
    IF IsNaN(a) \/ IsNaN(b) THEN NaN
    ELSE IF IsInf(a) \/ IsInf(b)
         THEN (IF a = 0 \/ b = 0 THEN NaN
               ELSE IF Sgn(a) * Sgn(b) > 0 THEN PosInf ELSE NegInf)
    ELSE Sgn(a) * Sgn(b) * MulMag(Abs(a), Abs(b))

\* the fractional digits of r / b (0 <= r < b), one decimal digit at a time
RECURSIVE FracDigits(_, _, _)
FracDigits(r, b, k) ==
    IF k <= 1 THEN 0
    ELSE ((r * 10) \div b) * (k \div 10) + FracDigits((r * 10) % b, b, k \div 10)

\* |a| / |b| in fixed point for finite a and b # 0
DivMag(a, b) == (a \div b) * Scale + FracDigits(a % b, b, Scale)

\* a / b
Div(a, b) ==
    IF IsNaN(a) \/ IsNaN(b) THEN NaN
    ELSE IF IsInf(a)
         THEN (IF IsInf(b) THEN NaN
               ELSE IF (a > 0) = (b >= 0) THEN PosInf ELSE NegInf)
    ELSE IF IsInf(b) THEN 0
    ELSE IF b = 0
         THEN (IF a = 0 THEN NaN ELSE IF a > 0 THEN PosInf ELSE NegInf)
    ELSE Sgn(a) * Sgn(b) * DivMag(Abs(a), Abs(b))

\* the integer square root, by bisection
RECURSIVE ISqrtB(_, _, _)
ISqrtB(n, lo, hi) ==
    IF lo >= hi THEN lo
    ELSE LET mid == (lo + hi + 1) \div 2
         IN  IF mid * mid <= n THEN ISqrtB(n, mid, hi) ELSE ISqrtB(n, lo, mid - 1)

ISqrt(n) == ISqrtB(n, 0, 46340)

\* Math.sqrt(a)
Sqrt(a) ==
    IF IsNaN(a) \/ a < 0 THEN NaN
    ELSE IF a = PosInf THEN PosInf
    ELSE IF a < PosInf \div Scale THEN ISqrt(a * Scale)
    ELSE ISqrt(a) * ISqrt(Scale)

\* Math.pow(a, 2)
Pow2(a) == Mul(a, a)

\* a === b, a != b and a > b on numbers
Eq(a, b) == ~IsNaN(a) /\ ~IsNaN(b) /\ a = b
Neq(a, b) == ~Eq(a, b)
Gt(a, b) == ~IsNaN(a) /\ ~IsNaN(b) /\ a > b

(***************************************************************************)
(* Angles, in tenths of a degree                                            *)
(***************************************************************************)
PI == 1800

\* sin of a finite angle d in [0, PI] (Bhaskara's rational approximation)
SinHalf(d) == (4 * Scale * (d * (PI - d))) \div (5 * (PI \div 2) * (PI \div 2) - d * (PI - d))

\* Math.sin(t)
Sin(t) ==
    IF ~IsFinite(t) THEN NaN
    ELSE LET d == t % (2 * PI)
         IN  IF d <= PI THEN SinHalf(d) ELSE -SinHalf(d - PI)

\* Math.cos(t)
Cos(t) == IF ~IsFinite(t) THEN NaN ELSE Sin(t + PI \div 2)

\* atan of a finite ratio r in [0, 1], in tenths of a degree
AtanUnit(r) ==
    (r * (Scale * (PI \div 4)
          + ((Scale - r) * (1402 * Scale + 379 * r)) \div (Scale * 10)))
    \div (Scale * Scale)

\* Math.atan(r)
Atan(r) ==
    IF IsNaN(r) THEN NaN
    ELSE IF r = PosInf THEN PI \div 2
    ELSE IF r = NegInf THEN -(PI \div 2)
    ELSE IF Abs(r) <= Scale THEN Sgn(r) * AtanUnit(Abs(r))
    ELSE Sgn(r) * (PI \div 2 - AtanUnit(DivMag(Scale, Abs(r))))

(***************************************************************************)
(* Masses: exact decimal numbers m * 10^e                                   *)
(***************************************************************************)
Dec(m, e) == [m |-> m, e |-> e]

\* the canonical form: no trailing zero in the mantissa
RECURSIVE DNorm(_)
DNorm(a) ==
    IF a.m = 0 THEN Dec(0, 0)
    ELSE IF a.m % 10 = 0 THEN DNorm(Dec(a.m \div 10, a.e + 1))
    ELSE a

DMul(a, b) == DNorm(Dec(a.m * b.m, a.e + b.e))

\* a / b for b a power of ten
DDiv(a, b) == DNorm(Dec(a.m, a.e - (DNorm(b)).e))

DAdd(a, b) ==
    LET e == IF a.e < b.e THEN a.e ELSE b.e
    IN  DNorm(Dec(a.m * 10^(a.e - e) + b.m * 10^(b.e - e), e))

DPositive(a) == a.m > 0

\* the decimal a as a number
ToNum(a) ==
    IF a.e >= 0 THEN a.m * 10^(a.e) * Scale
    ELSE Sgn(a.m) * ((Abs(a.m) * Scale) \div 10^(-a.e))

\* the quotient a / b of two positive decimals as a number
DQuot(a, b) ==
    IF a.e >= b.e THEN DivMag(a.m * 10^(a.e - b.e), b.m)
    ELSE DivMag(a.m, b.m * 10^(b.e - a.e))

(***************************************************************************)
(* Constants and global variables of the script                            *)
(***************************************************************************)
G == Dec(667, -13)
SUN == Dec(1, 14)
PLANET == DDiv(SUN, Dec(1, 6))
MOON1 == DDiv(PLANET, Dec(1, 2))
MOON == DDiv(PLANET, Dec(1, 4))

\* window.innerWidth, window.innerHeight and the height of the preset selector
width == Num(1500)
height == Num(800)
presetsOffsetHeight == Num(0)

VARIABLES
    bodies,           \* the active set: references to the bodies loop() advances
    stars,            \* the stars placed with the keyboard
    planets,          \* the planets placed with the keyboard
    moons,            \* the moons placed (no key places one)
    presets,          \* the bodies of the selected preset
    mouseX, mouseY,   \* the cursor
    simulationStart,  \* whether Enter has started the simulation
    presetsHidden,    \* whether the preset selector is hidden
    frames,           \* the requestAnimationFrame callbacks pending
    starts,           \* history: the times Enter has started loop() since the page was loaded
    ticks,            \* history: the runs of loop() since the page was loaded
    tickStart,        \* history: the bodies as the last run of loop() found them
    calls,            \* history: the method calls of the last run of loop(), in order
    divZero,          \* history: updateAcceleration divided by a zero distance
    pc,               \* the step of a function under test
    fnArgs,           \* the arguments of a function under test
    fnRes             \* its result

mainVars == <<bodies, stars, planets, moons, presets, mouseX, mouseY,
              simulationStart, presetsHidden, frames, starts, ticks, tickStart, calls,
              divZero>>
fnVars == <<pc, fnArgs, fnRes>>
vars == <<mainVars, fnVars>>

(***************************************************************************)
(* Helper functions                                                         *)
(***************************************************************************)
getFillStyle(r, g, b) == <<r, g, b>>

distance(body1, body2) ==
    Sqrt(Add(Pow2(Sub(body1.x, body2.x)), Pow2(Sub(body1.y, body2.y))))

sqDistance(body1, body2) ==
    Add(Pow2(Sub(body1.x, body2.x)), Pow2(Sub(body1.y, body2.y)))

\* angle(body1, body2) of the second revision
angle(body1, body2) ==
    IF Neq(Sub(body2.x, body1.x), 0)
    THEN IF Gt(body2.x, body1.x)
         THEN Atan(Div(Sub(body2.y, body1.y), Sub(body2.x, body1.x)))
         ELSE Add(PI, Atan(Div(Sub(body2.y, body1.y), Sub(body2.x, body1.x))))
    ELSE IF Gt(Sub(body2.y, body1.y), 0)
         THEN PI \div 2
         ELSE (3 * PI) \div 2

\* angle(body1, body2) of the first revision
angle1(body1, body2) ==
    IF Neq(Sub(body2.x, body1.x), 0)
    THEN Atan(Div(Sub(body2.y, body1.y), Sub(body2.x, body1.x)))
    ELSE IF Gt(Sub(body2.y, body1.y), 0)
         THEN PI \div 2
         ELSE (3 * PI) \div 2

\* angle(x1, y1, x2, y2) of the first revision
angleXY1(x1, y1, x2, y2) ==
    IF Neq(Sub(x2, x1), 0)
    THEN Atan(Div(Sub(y2, y1), Sub(x2, x1)))
    ELSE IF Gt(Sub(y2, y1), 0)
         THEN PI \div 2
         ELSE (3 * PI) \div 2

(***************************************************************************)
(* Classes                                                                  *)
(***************************************************************************)
\* new Body(...): the fields speed and angle are stored and never read
Body(mass, x, y, speed, ang, radius, r, g, b) ==
    [MASS |-> mass, x |-> x, y |-> y,
     vx |-> Mul(speed, Cos(ang)), vy |-> Mul(speed, Sin(ang)),
     RADIUS |-> radius, ax |-> 0, ay |-> 0,
     fillStyle |-> getFillStyle(r, g, b)]

\* a switch statement: cases is the sequence of its clauses, each with its
\* label, the assignments it makes (set) and whether it ends in a break;
\* control enters at the clause of the label (at default when no label
\* matches) and runs through the clauses until a break
RECURSIVE RunClauses(_, _, _)
RunClauses(cases, i, st) ==
    IF i > Len(cases) THEN st
    ELSE IF cases[i].brk THEN cases[i].set @@ st
    ELSE RunClauses(cases, i + 1, cases[i].set @@ st)

Switch(cases, type, st) ==
    LET hit == {i \in 1..Len(cases) : cases[i].label = type}
        dft == {i \in 1..Len(cases) : cases[i].label = "default"}
        Least(S) == CHOOSE i \in S : \A j \in S : i <= j
    IN  IF hit # {} THEN RunClauses(cases, Least(hit), st)
        ELSE IF dft # {} THEN RunClauses(cases, Least(dft), st)
        ELSE st

\* the switch of the Star constructor, first revision
StarCases1 ==
    << [label |-> "main",   set |-> [mass |-> SUN, r |-> 255, g |-> 255, b |-> 0], brk |-> TRUE],
       [label |-> "blue",   set |-> [mass |-> DMul(Dec(50, 0), SUN), r |-> 38, g |-> 97, b |-> 156], brk |-> TRUE],
       [label |-> "red",    set |-> [mass |-> DMul(Dec(1, -1), SUN), r |-> 125, g |-> 0, b |-> 0], brk |-> TRUE],
       [label |-> "yellow", set |-> [mass |-> DMul(Dec(85, -2), SUN), r |-> 255, g |-> 240, b |-> 0], brk |-> TRUE],
       [label |-> "orange", set |-> [mass |-> DMul(Dec(6, -1), SUN), r |-> 255, g |-> 102, b |-> 0], brk |-> TRUE],
       [label |-> "giant",  set |-> [mass |-> DMul(Dec(1000, 0), SUN), r |-> 255, g |-> 50, b |-> 0], brk |-> FALSE],
       [label |-> "default", set |-> [mass |-> SUN, r |-> 255, g |-> 255, b |-> 0], brk |-> TRUE] >>

\* new Star(x, y, speed, angle, type), first revision
Star1(x, y, speed, ang, type) ==
    LET v == Switch(StarCases1, type, [mass |-> SUN, r |-> 255, g |-> 255, b |-> 0])
    IN  Body(v.mass, x, y, speed, ang, Num(25), v.r, v.g, v.b)

\* StarType without its final else: no mass for a tag the chain does not name
StarTypeNoElse(type) ==
    IF type = "blue" THEN [mass |-> DMul(Dec(50, 0), SUN), r |-> 38, g |-> 97, b |-> 156]
    ELSE IF type = "red" THEN [mass |-> DMul(Dec(1, -1), SUN), r |-> 125, g |-> 0, b |-> 0]
    ELSE IF type = "yellow" THEN [mass |-> DMul(Dec(85, -2), SUN), r |-> 255, g |-> 220, b |-> 0]
    ELSE IF type = "orange" THEN [mass |-> DMul(Dec(5, -1), SUN), r |-> 255, g |-> 102, b |-> 0]
    ELSE IF type = "giant" THEN [mass |-> DMul(Dec(1000, 0), SUN), r |-> 255, g |-> 100, b |-> 0]
    ELSE [mass |-> Dec(0, 0), r |-> 255, g |-> 255, b |-> 0]

\* the if-else chain of the Star constructor, second revision
StarType(type) ==
    IF type = "blue" THEN [mass |-> DMul(Dec(50, 0), SUN), r |-> 38, g |-> 97, b |-> 156]
    ELSE IF type = "red" THEN [mass |-> DMul(Dec(1, -1), SUN), r |-> 125, g |-> 0, b |-> 0]
    ELSE IF type = "yellow" THEN [mass |-> DMul(Dec(85, -2), SUN), r |-> 255, g |-> 220, b |-> 0]
    ELSE IF type = "orange" THEN [mass |-> DMul(Dec(5, -1), SUN), r |-> 255, g |-> 102, b |-> 0]
    ELSE IF type = "giant" THEN [mass |-> DMul(Dec(1000, 0), SUN), r |-> 255, g |-> 100, b |-> 0]
    ELSE [mass |-> SUN, r |-> 255, g |-> 255, b |-> 0]

\* new Star(x, y, speed, angle, type), second revision
Star(x, y, speed, ang, type) ==
    LET v == StarType(type)
    IN  Body(v.mass, x, y, speed, ang, Num(25), v.r, v.g, v.b)

\* the switch of the Planet constructor, first revision
PlanetCases1 ==
    << [label |-> "rocky",   set |-> [mass |-> PLANET], brk |-> TRUE],
       [label |-> "gaseous", set |-> [mass |-> DMul(Dec(1000, 0), PLANET)], brk |-> TRUE],
       [label |-> "default", set |-> [mass |-> PLANET], brk |-> FALSE] >>

\* new Planet(x, y, speed, angle, type, r, g, b), first revision
Planet1(x, y, speed, ang, type, r, g, b) ==
    LET v == Switch(PlanetCases1, type, [mass |-> PLANET])
    IN  Body(v.mass, x, y, speed, ang, Num(15), r, g, b)

\* the switch of the Planet constructor, second revision
PlanetCases ==
    << [label |-> "rocky",   set |-> [mass |-> PLANET], brk |-> TRUE],
       [label |-> "gaseous", set |-> [mass |-> DMul(Dec(1000, 0), PLANET), radius |-> Num(7)], brk |-> TRUE],
       [label |-> "default", set |-> [mass |-> PLANET], brk |-> FALSE] >>

\* new Planet(x, y, speed, angle, type, r, g, b), second revision
Planet(x, y, speed, ang, type, r, g, b) ==
    LET v == Switch(PlanetCases, type, [mass |-> PLANET, radius |-> Num(7)])
    IN  Body(v.mass, x, y, speed, ang, v.radius, r, g, b)

\* new Moon(x, y, speed, angle), first and second revision
Moon1(x, y, speed, ang) == Body(MOON1, x, y, speed, ang, Num(8), 150, 150, 150)
Moon(x, y, speed, ang) == Body(MOON, x, y, speed, ang, Num(3), 150, 150, 150)

(***************************************************************************)
(* Objects.  The bodies live in the list that created them (presets, stars, *)
(* planets, moons); a reference names a list and an index into it, and the  *)
(* active set, bodies, is a sequence of references.  A store O holds the    *)
(* four lists.                                                              *)
(***************************************************************************)
Ref(list, i) == [list |-> list, i |-> i]
Obj(O, ref) == O[ref.list][ref.i]
Put(O, ref, b) == [O EXCEPT ![ref.list][ref.i] = b]
Refs(list, n) == [i \in 1..n |-> Ref(list, i)]
Store == [presets |-> presets, stars |-> stars, planets |-> planets, moons |-> moons]

\* G * mass
GTimes(mass) == ToNum(DMul(G, mass))

\* the condition of line 527 without its test for equal positions
PullsNotSelf(O, this, other) == this # other

\* line 527: does body other add to the acceleration of body this
Pulls(O, this, other) ==
    /\ this # other
    /\ ~(Eq(Obj(O, this).x, Obj(O, other).x) /\ Eq(Obj(O, this).y, Obj(O, other).y))

\* lines 526-531: the sum over bodies[i..]; zero records a division by zero
RECURSIVE GravSum(_, _, _, _, _)
GravSum(O, bs, this, i, acc) ==
    IF i > Len(bs) THEN acc
    ELSE IF Pulls(O, this, bs[i])
    THEN LET me == Obj(O, this)
             it == Obj(O, bs[i])
             sq == sqDistance(me, it)
             d == distance(me, it)
             pull == Div(GTimes(it.MASS), sq)
         IN  GravSum(O, bs, this, i + 1,
                     [gx |-> Add(acc.gx, Mul(pull, Div(Sub(it.x, me.x), d))),
                      gy |-> Add(acc.gy, Mul(pull, Div(Sub(it.y, me.y), d))),
                      zero |-> acc.zero \/ Eq(sq, 0) \/ Eq(d, 0)])
    ELSE GravSum(O, bs, this, i + 1, acc)

\* an updateAcceleration that adds the acceleration to the velocity as well
updateAccelerationAndVelocity(O, bs, this) ==
    LET g == GravSum(O, bs, this, 1, [gx |-> 0, gy |-> 0, zero |-> FALSE])
    IN  [O |-> Put(O, this, [Obj(O, this) EXCEPT !.ax = g.gx, !.ay = g.gy,
                                                !.vx = Add(@, g.gx), !.vy = Add(@, g.gy)]),
         zero |-> g.zero]

\* this.updateAcceleration(), over the active set bs
updateAcceleration(O, bs, this) ==
    LET g == GravSum(O, bs, this, 1, [gx |-> 0, gy |-> 0, zero |-> FALSE])
    IN  [O |-> Put(O, this, [Obj(O, this) EXCEPT !.ax = g.gx, !.ay = g.gy]),
         zero |-> g.zero]

\* an updateVelocity that assigns the acceleration instead of adding it
updateVelocitySet(O, this) ==
    LET b == Obj(O, this)
    IN  Put(O, this, [b EXCEPT !.vx = b.ax, !.vy = b.ay])

\* this.updateVelocity()
updateVelocity(O, this) ==
    LET b == Obj(O, this)
    IN  Put(O, this, [b EXCEPT !.vx = Add(b.vx, b.ax), !.vy = Add(b.vy, b.ay)])

\* this.updatePosition()
updatePosition(O, this) ==
    LET b == Obj(O, this)
    IN  Put(O, this, [b EXCEPT !.x = Add(b.x, b.vx), !.y = Add(b.y, b.vy)])

\* an assignParent that takes the bearing from the arc tangent alone, as the
\* angle of the first revision does
assignParentAtan(O, this, body) ==
    LET me == Obj(O, this)
        b == Obj(O, body)
        vx == Add(Mul(Sqrt(Div(GTimes(b.MASS), distance(me, b))),
                      Cos(Add(angle1(me, b), PI \div 2))), b.vx)
        vy == Add(Mul(Sqrt(Div(GTimes(b.MASS), distance(me, b))),
                      Sin(Add(angle1(me, b), PI \div 2))), b.vy)
    IN  Put(O, this, [me EXCEPT !.vx = vx, !.vy = vy])

\* this.assignParent(body)
assignParent(O, this, body) ==
    LET me == Obj(O, this)
        b == Obj(O, body)
        vx == Add(Mul(Sqrt(Div(GTimes(b.MASS), distance(me, b))),
                      Cos(Add(angle(me, b), PI \div 2))), b.vx)
        vy == Add(Mul(Sqrt(Div(GTimes(b.MASS), distance(me, b))),
                      Sin(Add(angle(me, b), PI \div 2))), b.vy)
    IN  Put(O, this, [me EXCEPT !.vx = vx, !.vy = vy])

\* an assignBinary that turns both bodies by the bearing from this to body
assignBinarySameBearing(O, this, body) ==
    LET me == Obj(O, this)
        b == Obj(O, body)
        r == distance(me, b)
        v1 == Sqrt(Div(DQuot(DMul(G, DMul(b.MASS, b.MASS)), DAdd(me.MASS, b.MASS)), r))
        v2 == Sqrt(Div(DQuot(DMul(G, DMul(me.MASS, me.MASS)), DAdd(me.MASS, b.MASS)), r))
        O1 == Put(O, this, [me EXCEPT !.vx = Mul(v1, Cos(Add(angle(me, b), PI \div 2))),
                                      !.vy = Mul(v1, Sin(Add(angle(me, b), PI \div 2)))])
    IN  Put(O1, body, [b EXCEPT !.vx = Mul(v2, Cos(Add(angle(me, b), PI \div 2))),
                                !.vy = Mul(v2, Sin(Add(angle(me, b), PI \div 2)))])

\* this.assignBinary(body)
assignBinary(O, this, body) ==
    LET me == Obj(O, this)
        b == Obj(O, body)
        r == distance(me, b)
        v1 == Sqrt(Div(DQuot(DMul(G, DMul(b.MASS, b.MASS)), DAdd(me.MASS, b.MASS)), r))
        v2 == Sqrt(Div(DQuot(DMul(G, DMul(me.MASS, me.MASS)), DAdd(me.MASS, b.MASS)), r))
        O1 == Put(O, this, [me EXCEPT !.vx = Mul(v1, Cos(Add(angle(me, b), PI \div 2))),
                                      !.vy = Mul(v1, Sin(Add(angle(me, b), PI \div 2)))])
    IN  Put(O1, body, [b EXCEPT !.vx = Mul(v2, Cos(Add(angle(b, me), PI \div 2))),
                                !.vy = Mul(v2, Sin(Add(angle(b, me), PI \div 2)))])

(***************************************************************************)
(* loop().  A run is a record: the store O, the calls made so far (log) and *)
(* whether updateAcceleration divided by zero (zero).                       *)
(***************************************************************************)
\* a first for loop that also moves each body as it goes
RECURSIVE FirstPassMoving(_, _, _)
FirstPassMoving(run, bs, i) ==
    IF i > Len(bs) THEN run
    ELSE LET a == updateAcceleration(run.O, bs, bs[i])
         IN  FirstPassMoving(
                 [O |-> updatePosition(updateVelocity(a.O, bs[i]), bs[i]),
                  log |-> run.log \o << <<"updateAcceleration", bs[i]>>,
                                        <<"updateVelocity", bs[i]>>,
                                        <<"updatePosition", bs[i]>> >>,
                  zero |-> run.zero \/ a.zero],
                 bs, i + 1)

\* lines 691-694: for (const b of bodies) { b.updateAcceleration(); b.updateVelocity(); }
RECURSIVE FirstPass(_, _, _)
FirstPass(run, bs, i) ==
    IF i > Len(bs) THEN run
    ELSE LET a == updateAcceleration(run.O, bs, bs[i])
         IN  FirstPass(
                 [O |-> updateVelocity(a.O, bs[i]),
                  log |-> run.log \o << <<"updateAcceleration", bs[i]>>,
                                        <<"updateVelocity", bs[i]>> >>,
                  zero |-> run.zero \/ a.zero],
                 bs, i + 1)

\* lines 695-698: for (const b of bodies) { b.updatePosition(); b.move(); }
RECURSIVE SecondPass(_, _, _)
SecondPass(run, bs, i) ==
    IF i > Len(bs) THEN run
    ELSE SecondPass(
             [run EXCEPT !.O = updatePosition(run.O, bs[i]),
                         !.log = run.log \o << <<"updatePosition", bs[i]>> >>],
             bs, i + 1)

\* loop() with its two for loops in the opposite order
LoopRunSwapped(O, bs) ==
    FirstPass(SecondPass([O |-> O, log |-> <<>>, zero |-> FALSE], bs, 1), bs, 1)

\* the two for loops of loop() over the active set bs, from the store O
LoopRun(O, bs) ==
    SecondPass(FirstPass([O |-> O, log |-> <<>>, zero |-> FALSE], bs, 1), bs, 1)

\* loop() as a step, with f callbacks pending when it is entered: the lists
\* after its two passes, and one more callback requested (line 700)
loop(O, bs, f) ==
    \E run \in {LoopRun(O, bs)} :
        /\ presets' = run.O.presets
        /\ stars' = run.O.stars
        /\ planets' = run.O.planets
        /\ moons' = run.O.moons
        /\ frames' = f + 1
        /\ ticks' = ticks + 1
        /\ tickStart' = O
        /\ calls' = run.log
        /\ divZero' = (divZero \/ run.zero)

(***************************************************************************)
(* The state after the script has been loaded (second revision)             *)
(***************************************************************************)
NoBodies == [presets |-> <<>>, stars |-> <<>>, planets |-> <<>>, moons |-> <<>>]

MainInit ==
    /\ bodies = <<>>
    /\ stars = <<>>
    /\ planets = <<>>
    /\ moons = <<>>
    /\ presets = <<>>
    /\ mouseX = 0
    /\ mouseY = 0
    /\ simulationStart = FALSE
    /\ presetsHidden = FALSE
    /\ frames = 0
    /\ starts = 0
    /\ ticks = 0
    /\ tickStart = NoBodies
    /\ calls = <<>>
    /\ divZero = FALSE

(***************************************************************************)
(* The presets (lines 713-767), built in a store of their own               *)
(***************************************************************************)
Push(O, b) == [O EXCEPT !.presets = Append(@, b)]
At(i) == Ref("presets", i)
Last(O) == Ref("presets", Len(O.presets))
Half(a) == Div(a, Num(2))

\* lines 718-723 and 724-729: the planets around presets.at(s), from i on
RECURSIVE TwinPlanets(_, _, _)
TwinPlanets(O, s, i) ==
    IF i >= 7 THEN O
    ELSE LET c == Obj(O, At(s))
             O1 == Push(O, Planet(Sub(Sub(c.x, Num(50 * i)), Num(100)), c.y, 0, 0,
                                  "rocky", 100 + 5 * i, 0, 0))
             O2 == assignParent(O1, Last(O1), At(s))
             O3 == Push(O2, Planet(Add(Add(c.x, Num(50 * i)), Num(100)), c.y, 0, 0,
                                   "rocky", 0, 0, 100 + 5 * i))
             O4 == assignParent(O3, Last(O3), At(s))
         IN  TwinPlanets(O4, s, i + 1)

TwinGalaxy ==
    LET O1 == Push(NoBodies, Star(Mul(width, ToNum(Dec(6, -1))), Mul(height, ToNum(Dec(8, -1))),
                                  Num(2), 0, "main"))
        O2 == Push(O1, Star(Mul(width, ToNum(Dec(4, -1))), Mul(height, ToNum(Dec(2, -1))),
                            Num(2), PI, "main"))
        O3 == assignBinary(O2, At(1), At(2))
    IN  TwinPlanets(TwinPlanets(O3, 1, 0), 2, 0)

Tattooine ==
    LET O1 == Push(NoBodies, Star(Add(Half(width), Num(75)), Half(height),
                                  Sqrt(Div(GTimes(SUN), Num(300))), (3 * PI) \div 2, "main"))
        O2 == Push(O1, Star(Sub(Half(width), Num(75)), Half(height),
                            Sqrt(Div(GTimes(SUN), Num(300))), PI \div 2, "main"))
        O3 == assignBinary(O2, At(1), At(2))
    IN  Push(O3, Planet(Sub(Half(width), Num(550)), Half(height),
                        Sqrt(Div(ToNum(DMul(DMul(G, Dec(2, 0)), SUN)), Num(550))),
                        (3 * PI) \div 2, "rocky", 125, 0, 0))

Simple ==
    LET O1 == Push(NoBodies, Star(Half(width), Half(height), 0, 0, "red"))
        O2 == Push(O1, Planet(Sub(Half(width), Num(700)), Half(height), 0, 0,
                              "gaseous", 30, 0, 125))
        O3 == assignParent(O2, At(2), At(1))
        O4 == Push(O3, Moon(Sub(Half(width), Num(750)), Half(height), 0, 0))
    IN  assignParent(O4, At(3), At(2))

\* lines 746-751: the planets of the Galaxy preset, from i on
RECURSIVE GalaxyPlanets(_, _)
GalaxyPlanets(O, i) ==
    IF i >= 15 THEN O
    ELSE LET c == Obj(O, At(1))
             O1 == Push(O, Planet(Sub(Sub(c.x, Mul(Div(width, Num(40)), Num(i))), Num(100)),
                                  c.y, 0, 0, "rocky", 100 + 5 * i, 0, 0))
             O2 == assignParent(O1, At(2 * i + 2), At(1))
             O3 == Push(O2, Planet(Add(Add(c.x, Mul(Div(width, Num(40)), Num(i))), Num(100)),
                                   c.y, 0, 0, "rocky", 0, 0, 100 + 5 * i))
             O4 == assignParent(O3, At(2 * i + 3), At(1))
         IN  GalaxyPlanets(O4, i + 1)

Galaxy == GalaxyPlanets(Push(NoBodies, Star(Half(width), Half(height), 0, 0, "main")), 0)

GravityCannon ==
    LET O1 == Push(NoBodies, Star(Add(Half(width), Num(75)), Half(height),
                                  Sqrt(Div(GTimes(SUN), Num(300))), (3 * PI) \div 2, "main"))
        O2 == Push(O1, Star(Sub(Half(width), Num(75)), Half(height),
                            Sqrt(Div(GTimes(SUN), Num(300))), PI \div 2, "main"))
        O3 == assignBinary(O2, At(1), At(2))
        O4 == Push(O3, Planet(Sub(Half(width), Num(550)), Half(height), Num(3), 0,
                              "rocky", 125, 0, 0))
        O5 == Push(O4, Planet(Half(width), Add(Half(height), Num(550)), ToNum(Dec(581, -2)),
                              (3 * PI) \div 2, "rocky", 125, 0, 0))
        O6 == Push(O5, Planet(Add(Half(width), Num(550)), Half(height), Num(3), PI,
                              "rocky", 125, 0, 0))
    IN  Push(O6, Planet(Half(width), Sub(Half(height), Num(550)), ToNum(Dec(581, -2)),
                        PI \div 2, "rocky", 125, 0, 0))

ThreeBody ==
    LET v == Sqrt(Div(GTimes(SUN), Num(1000)))
        O1 == Push(NoBodies, Star(Div(width, Num(3)), Div(height, Num(4)), v,
                                  Sub(0, PI \div 3), "yellow"))
        O2 == Push(O1, Star(Div(Mul(Num(2), width), Num(3)), Div(height, Num(4)), v,
                            Sub((2 * PI) \div 3, PI \div 3), "yellow"))
    IN  Push(O2, Star(Half(width),
                      Add(Div(height, Num(4)),
                          Div(Mul(Div(Sqrt(Num(3)), Num(2)), width), Num(3))),
                      v, Sub((4 * PI) \div 3, PI \div 3), "yellow"))

\* the switch of lines 713-767 on the value of the selector
PresetBodies(value) ==
    CASE value = "Twin Galaxy" -> TwinGalaxy.presets
      [] value = "Tattooine" -> Tattooine.presets
      [] value = "Simple" -> Simple.presets
      [] value = "Galaxy" -> Galaxy.presets
      [] value = "Gravity Cannon" -> GravityCannon.presets
      [] value = "Three Body?" -> ThreeBody.presets
      [] OTHER -> <<>>

(***************************************************************************)
(* The event handlers of the second revision                                *)
(***************************************************************************)
\* the values of the selector the model selects: three of its presets and a
\* value the switch has no case for
PresetValues == {"Tattooine", "Simple", "Three Body?", "None"}

\* the positions of the pointer the model moves it to
ClientXs == {Num(100 * i) : i \in 1..MaxCursor}
ClientYs == {Num(700)}

NoFn == /\ pc = "idle" /\ fnArgs = <<>> /\ fnRes = <<>>

Init == MainInit /\ NoFn

history == <<starts, ticks, tickStart, calls, divZero>>

\* lines 703-706: mousemove
MouseMove(clientX, clientY) ==
    /\ mouseX' = clientX
    /\ mouseY' = Add(Sub(height, clientY), presetsOffsetHeight)
    /\ UNCHANGED <<bodies, stars, planets, moons, presets, simulationStart,
                   presetsHidden, frames, history, fnVars>>

\* lines 708-780: change of the selector, which line 821 hides for good
PresetChange(value) ==
    /\ ~presetsHidden
    /\ presets' = PresetBodies(value)
    /\ UNCHANGED <<bodies, stars, planets, moons, mouseX, mouseY, simulationStart,
                   presetsHidden, frames, history, fnVars>>

\* lines 783-785: location.reload() loads the page anew
KeyEscape ==
    /\ bodies' = <<>>
    /\ stars' = <<>>
    /\ planets' = <<>>
    /\ moons' = <<>>
    /\ presets' = <<>>
    /\ mouseX' = 0
    /\ mouseY' = 0
    /\ simulationStart' = FALSE
    /\ presetsHidden' = FALSE
    /\ frames' = 0
    /\ starts' = 0
    /\ ticks' = 0
    /\ tickStart' = NoBodies
    /\ calls' = <<>>
    /\ divZero' = FALSE
    /\ UNCHANGED fnVars

StarKeys == [B |-> "blue", M |-> "main", R |-> "red", O |-> "orange", Y |-> "yellow"]
PlanetKeys == [r |-> <<"rocky", 125, 0, 0>>, g |-> <<"gaseous", 13, 153, 150>>]

\* lines 786-805: B, M, R, O, Y
KeyStar(key) ==
    /\ Len(stars) < MaxStars
    /\ stars' = Append(stars, Star(mouseX, mouseY, 0, 0, StarKeys[key]))
    /\ UNCHANGED <<bodies, planets, moons, presets, mouseX, mouseY, simulationStart,
                   presetsHidden, frames, history, fnVars>>

\* lines 806-808: 2
Key2 ==
    /\ IF Len(stars) >= 2
       THEN stars' = assignBinary(Store, Ref("stars", Len(stars)),
                                  Ref("stars", Len(stars) - 1)).stars
       ELSE stars' = stars
    /\ UNCHANGED <<bodies, planets, moons, presets, mouseX, mouseY, simulationStart,
                   presetsHidden, frames, history, fnVars>>

\* keys r and g with the first star placed as the anchor of the planet
KeyPlanetFirstStar(key) ==
    /\ Len(planets) < MaxPlanets
    /\ LET t == PlanetKeys[key]
           O1 == [Store EXCEPT !.planets =
                     Append(@, Planet(mouseX, mouseY, 0, 0, t[1], t[2], t[3], t[4]))]
           new == Ref("planets", Len(O1.planets))
       IN  planets' = IF Len(stars) > 0
                      THEN assignParent(O1, new, Ref("stars", 1)).planets
                      ELSE O1.planets
    /\ UNCHANGED <<bodies, stars, moons, presets, mouseX, mouseY, simulationStart,
                   presetsHidden, frames, history, fnVars>>

\* lines 809-818: r, g
KeyPlanet(key) ==
    /\ Len(planets) < MaxPlanets
    /\ LET t == PlanetKeys[key]
           O1 == [Store EXCEPT !.planets =
                     Append(@, Planet(mouseX, mouseY, 0, 0, t[1], t[2], t[3], t[4]))]
           new == Ref("planets", Len(O1.planets))
       IN  planets' = IF Len(stars) > 0
                      THEN assignParent(O1, new, Ref("stars", Len(stars))).planets
                      ELSE O1.planets
    /\ UNCHANGED <<bodies, stars, moons, presets, mouseX, mouseY, simulationStart,
                   presetsHidden, frames, history, fnVars>>

\* line 820 without ...planets
CombinedNoPlanets ==
    bodies \o Refs("presets", Len(presets)) \o Refs("stars", Len(stars))
           \o Refs("moons", Len(moons))

\* line 820: [...bodies, ...presets, ...stars, ...planets, ...moons]
Combined ==
    bodies \o Refs("presets", Len(presets)) \o Refs("stars", Len(stars))
           \o Refs("planets", Len(planets)) \o Refs("moons", Len(moons))

\* line 819 without its test of simulationStart
MayStartAlways == TRUE

\* line 819: may Enter start the simulation
MayStart == ~simulationStart

\* lines 819-825: Enter
KeyEnter ==
    IF MayStart
    THEN /\ bodies' = Combined
         /\ presetsHidden' = TRUE
         /\ simulationStart' = TRUE
         /\ starts' = starts + 1
         /\ loop(Store, bodies', frames)
         /\ UNCHANGED <<mouseX, mouseY, fnVars>>
    ELSE UNCHANGED vars

\* lines 782-826: keydown
KeyDown(key) ==
    \/ key = "Escape" /\ KeyEscape
    \/ key \in DOMAIN StarKeys /\ KeyStar(key)
    \/ key = "2" /\ Key2
    \/ key \in DOMAIN PlanetKeys /\ KeyPlanet(key)
    \/ key = "Enter" /\ KeyEnter

Keys == {"Escape", "B", "M", "R", "O", "Y", "2", "r", "g", "Enter"}

\* the callback line 700 requested runs loop() again
Frame ==
    /\ frames > 0
    /\ ticks < MaxTicks
    /\ loop(Store, bodies, frames - 1)
    /\ UNCHANGED <<bodies, mouseX, mouseY, simulationStart, presetsHidden, starts, fnVars>>

Next ==
    \/ \E x \in ClientXs, y \in ClientYs : MouseMove(x, y)
    \/ \E value \in PresetValues : PresetChange(value)
    \/ \E key \in Keys : KeyDown(key)
    \/ Frame

Spec == Init /\ [][Next]_vars

(***************************************************************************)
(* Properties of the simulation                                             *)
(***************************************************************************)
Reverse(q) == [k \in 1..Len(q) |-> q[Len(q) + 1 - k]]
Active == {bodies[k] : k \in 1..Len(bodies)}
SamePlace(O, a, b) == Eq(Obj(O, a).x, Obj(O, b).x) /\ Eq(Obj(O, a).y, Obj(O, b).y)
Times(op, ref, log) == Cardinality({k \in 1..Len(log) : log[k] = <<op, ref>>})

\* C1: after a run of loop() the acceleration stored on every body of the
\* active set is the gravitational sum over the positions all bodies had when
\* the run began, also when the sum is taken in the opposite order of the
\* active set: no velocity or position updated earlier in the run enters it.
C1_AccelerationFromTickStart ==
    ticks > 0 =>
       \A b \in Active :
          LET g == GravSum(tickStart, Reverse(bodies), b, 1,
                           [gx |-> 0, gy |-> 0, zero |-> FALSE])
          IN  Obj(Store, b).ax = g.gx /\ Obj(Store, b).ay = g.gy

C1_Witness ==
    /\ ticks > 0
    /\ \E j, k \in 1..Len(bodies) :
          /\ j < k
          /\ Obj(Store, bodies[j]).vx # Obj(tickStart, bodies[j]).vx
          /\ Obj(Store, bodies[j]).x # Obj(tickStart, bodies[j]).x
          /\ Obj(Store, bodies[k]).ax # 0
          /\ IsFinite(Obj(Store, bodies[k]).ax)

C3_OneStepPerTick ==
    [][ticks' = ticks + 1 =>
          \A k \in 1..Len(bodies') :
             LET old == Obj(Store, bodies'[k])
                 new == Obj(Store', bodies'[k])
             IN  /\ new.vx = Add(old.vx, new.ax)
                 /\ new.vy = Add(old.vy, new.ay)
                 /\ new.x = Add(old.x, new.vx)
                 /\ new.y = Add(old.y, new.vy)
                 /\ Times("updateVelocity", bodies'[k], calls') = 1
                 /\ Times("updatePosition", bodies'[k], calls') = 1]_vars

C3_Witness ==
    /\ ticks = 2
    /\ \E b \in Active :
          /\ Obj(tickStart, b).vx # 0
          /\ Obj(Store, b).ax # 0
          /\ IsFinite(Obj(Store, b).x)
          /\ Obj(Store, b).vx = Add(Obj(tickStart, b).vx, Obj(Store, b).ax)
          /\ Obj(Store, b).x = Add(Obj(tickStart, b).x, Obj(Store, b).vx)

\* C4: updateAcceleration never divides by a zero distance, and a body whose
\* active set is empty but for itself and for bodies at its own position has
\* acceleration (0, 0) after a run of loop().
C4_NoZeroDistance ==
    /\ ~divZero
    /\ ticks > 0 =>
          \A b \in Active :
             (\A c \in Active : c = b \/ SamePlace(tickStart, b, c))
             => (Obj(Store, b).ax = 0 /\ Obj(Store, b).ay = 0)

C4_Witness ==
    /\ ticks > 0
    /\ Len(bodies) = 2
    /\ bodies[1] # bodies[2]
    /\ SamePlace(tickStart, bodies[1], bodies[2])
    /\ Obj(Store, bodies[1]).ax = 0
    /\ Obj(Store, bodies[2]).ay = 0
    /\ ~divZero

\* C5: Enter starts the simulation at most once per page load: loop() is
\* started once, at most one frame callback is ever pending, and before the
\* first Enter no run of loop() has happened and the active set is empty.
C5_StartsOnce ==
    /\ starts <= 1
    /\ frames <= 1
    /\ ~simulationStart => (starts = 0 /\ ticks = 0 /\ frames = 0 /\ bodies = <<>>)
    /\ simulationStart => (starts = 1 /\ ticks >= 1 /\ frames = 1)

C5_Witness ==
    /\ simulationStart
    /\ starts = 1
    /\ ticks = 2
    /\ frames = 1
    /\ Len(bodies) > 0

\* C6: the step that starts the simulation makes the active set hold every
\* preset body and every placed star, planet and moon exactly once; no later
\* step of the same page load changes the active set.
C6_ActiveSetFixed ==
    [][/\ (~simulationStart /\ simulationStart') =>
             LET all == {Ref(l, i) : l \in {"presets", "stars", "planets", "moons"},
                                     i \in 1..(Len(presets) + Len(stars) + Len(planets))}
                 have == {r \in all : r.i <= Len(Store[r.list])}
             IN  /\ {bodies'[k] : k \in 1..Len(bodies')} = have
                 /\ Len(bodies') = Cardinality(have)
       /\ (simulationStart /\ simulationStart') => bodies' = bodies]_vars

C6_Witness ==
    /\ simulationStart
    /\ ticks = 2
    /\ Len(presets) > 0
    /\ Len(planets) > 0
    /\ Ref("stars", 1) \in Active
    /\ Len(stars) = 2
    /\ Ref("stars", 2) \notin Active

\* C7: once the simulation runs, a step that is no run of loop() leaves the
\* velocity of every body of the active set as it was.
C7_VelocityOnlyByTick ==
    [][(simulationStart /\ simulationStart' /\ ticks' = ticks) =>
          \A b \in Active :
             /\ Obj(Store', b).vx = Obj(Store, b).vx
             /\ Obj(Store', b).vy = Obj(Store, b).vy]_vars

(***************************************************************************)
(* The constructors, applied to every sub-type tag                          *)
(***************************************************************************)
\* the tags the script passes, a tag no constructor knows ("gas giant",
\* line 272) and the missing argument (undefined)
Tags == {"main", "blue", "red", "yellow", "orange", "giant",
         "rocky", "gaseous", "gas giant", "undefined"}

InitCtor ==
    /\ MainInit
    /\ pc = "args"
    /\ fnArgs \in [cls : {"Star", "Planet", "Moon"}, rev : {1, 2}, type : Tags,
                   speed : {0, Num(1)}, ang : {0, PI}]
    /\ fnRes = <<>>

Construct ==
    /\ pc = "args"
    /\ pc' = "done"
    /\ fnRes' =
         LET a == fnArgs
         IN  IF a.cls = "Star"
             THEN (IF a.rev = 1 THEN Star1(0, 0, a.speed, a.ang, a.type)
                   ELSE Star(0, 0, a.speed, a.ang, a.type))
             ELSE IF a.cls = "Planet"
             THEN (IF a.rev = 1 THEN Planet1(0, 0, a.speed, a.ang, a.type, 125, 0, 0)
                   ELSE Planet(0, 0, a.speed, a.ang, a.type, 125, 0, 0))
             ELSE (IF a.rev = 1 THEN Moon1(0, 0, a.speed, a.ang)
                   ELSE Moon(0, 0, a.speed, a.ang))
    /\ UNCHANGED <<fnArgs, mainVars>>

NextCtor == Construct

SpecCtor == InitCtor /\ [][NextCtor]_vars

\* C8: a Star built with tag main, blue, red, yellow or giant has mass 1, 50,
\* 0.1, 0.85 and 1000 times SUN, in the Star constructor of either revision.
C8_StarMassTable ==
    (pc = "done" /\ fnArgs.cls = "Star"
       /\ fnArgs.type \in {"main", "blue", "red", "yellow", "giant"})
    => fnRes.MASS = CASE fnArgs.type = "main"   -> Dec(1, 14)
                      [] fnArgs.type = "blue"   -> Dec(5, 15)
                      [] fnArgs.type = "red"    -> Dec(1, 13)
                      [] fnArgs.type = "yellow" -> Dec(85, 12)
                      [] fnArgs.type = "giant"  -> Dec(1, 17)

\* C9: for every tag, known, unknown or missing, the Star, Planet and Moon
\* constructors yield a body of strictly positive mass, and an unknown tag
\* yields the default of the category: SUN for a Star, PLANET for a Planet.
C9_PositiveMassAndDefault ==
    pc = "done" =>
       /\ DPositive(fnRes.MASS)
       /\ (fnArgs.cls = "Star"
             /\ fnArgs.type \notin {"main", "blue", "red", "yellow", "orange", "giant"})
          => fnRes.MASS = Dec(1, 14)
       /\ (fnArgs.cls = "Planet" /\ fnArgs.type \notin {"rocky", "gaseous"})
          => fnRes.MASS = Dec(1, 8)

C9_Witness ==
    /\ pc = "done"
    /\ fnArgs.cls = "Star"
    /\ fnArgs.rev = 2
    /\ fnArgs.type = "undefined"
    /\ fnRes.MASS = Dec(1, 14)

(***************************************************************************)
(* angle, applied to every pair of positions of a small grid                *)
(***************************************************************************)
MaxCoord == 2

GridPoints == {[x |-> Num(i), y |-> Num(j)] : i \in -MaxCoord..MaxCoord, j \in -MaxCoord..MaxCoord}

InitAngle ==
    /\ MainInit
    /\ pc = "args"
    /\ fnArgs \in [p : GridPoints, q : GridPoints]
    /\ fnRes = <<>>

ApplyAngle ==
    /\ pc = "args"
    /\ pc' = "done"
    /\ fnRes' = [rev2 |-> angle(fnArgs.p, fnArgs.q),
                 rev1 |-> angle1(fnArgs.p, fnArgs.q),
                 rev1xy |-> angleXY1(fnArgs.p.x, fnArgs.p.y, fnArgs.q.x, fnArgs.q.y)]
    /\ UNCHANGED <<fnArgs, mainVars>>

NextAngle == ApplyAngle

SpecAngle == InitAngle /\ [][NextAngle]_vars

\* C10: for p and q at distinct positions angle(p, q) is the bearing from p to
\* q as a value in [0, 2*PI): in the quadrant of (dx, dy) in all four
\* quadrants, and exactly PI/2 or 3*PI/2 on the vertical axis.
C10_BearingInRange ==
    (pc = "done" /\ fnArgs.p # fnArgs.q) =>
       LET dx == fnArgs.q.x - fnArgs.p.x
           dy == fnArgs.q.y - fnArgs.p.y
           t == fnRes.rev2
       IN  /\ 0 <= t /\ t < 2 * PI
           /\ (dx > 0 /\ dy = 0) => t = 0
           /\ (dx > 0 /\ dy > 0) => (0 < t /\ t < PI \div 2)
           /\ (dx = 0 /\ dy > 0) => t = PI \div 2
           /\ (dx < 0 /\ dy > 0) => (PI \div 2 < t /\ t < PI)
           /\ (dx < 0 /\ dy = 0) => t = PI
           /\ (dx < 0 /\ dy < 0) => (PI < t /\ t < (3 * PI) \div 2)
           /\ (dx = 0 /\ dy < 0) => t = (3 * PI) \div 2
           /\ (dx > 0 /\ dy < 0) => ((3 * PI) \div 2 < t /\ t < 2 * PI)

(***************************************************************************)
(* The orbit seeders, applied to every pair of positions of the grid        *)
(***************************************************************************)
SeedTypes == {"main", "blue", "red"}

\* the two bodies of a call: the first moves along x before the call, the
\* second along y, both at the speed of the arguments
SeedStore(a) ==
    [NoBodies EXCEPT !.presets = <<Star(a.p.x, a.p.y, a.speed, 0, a.ta),
                                   Star(a.q.x, a.q.y, a.speed, PI \div 2, a.tb)>>]

InitSeed ==
    /\ MainInit
    /\ pc = "args"
    /\ fnArgs \in [fn : {"assignParent", "assignBinary"}, p : GridPoints, q : GridPoints,
                   ta : SeedTypes, tb : SeedTypes, speed : {0, Num(3)}]
    /\ fnRes = <<>>

\* presets.at(0).assignParent(presets.at(1))
ApplyAssignParent ==
    /\ pc = "args"
    /\ fnArgs.fn = "assignParent"
    /\ pc' = "done"
    /\ fnRes' = assignParent(SeedStore(fnArgs), Ref("presets", 1), Ref("presets", 2))
    /\ UNCHANGED <<fnArgs, mainVars>>

\* presets.at(0).assignBinary(presets.at(1))
ApplyAssignBinary ==
    /\ pc = "args"
    /\ fnArgs.fn = "assignBinary"
    /\ pc' = "done"
    /\ fnRes' = assignBinary(SeedStore(fnArgs), Ref("presets", 1), Ref("presets", 2))
    /\ UNCHANGED <<fnArgs, mainVars>>

NextSeed == ApplyAssignParent \/ ApplyAssignBinary

SpecSeed == InitSeed /\ [][NextSeed]_vars

\* a and b differ by no more than k units of the last digit kept
Near(a, b, k) == IsFinite(a) /\ IsFinite(b) /\ Abs(a - b) <= k

\* the circular-orbit speed sqrt(G * mass / d)
OrbitSpeed(mass, d) == Sqrt(Div(GTimes(mass), d))

\* what a speed of magnitude s along the unit vector (u / d) comes to
Along(s, u, d) == Div(Mul(s, u), d)

\* C11: for child and anchor at distinct positions, child.assignParent(anchor)
\* leaves the anchor and the child's position (and every field of the child
\* but vx, vy) as they were, and sets the child's velocity to the anchor's
\* velocity plus a vector of magnitude sqrt(G * anchor.mass / distance) along
\* the child->anchor direction (dx, dy) rotated by +90 degrees, (-dy, dx),
\* wherever the anchor lies relative to the child; the components agree to
\* two parts in a hundred of the speed, the precision of the model's sine and
\* arc tangent.
C11_ParentOrbit ==
    (pc = "done" /\ fnArgs.fn = "assignParent" /\ fnArgs.p # fnArgs.q) =>
       LET child == SeedStore(fnArgs).presets[1]
           anchor == SeedStore(fnArgs).presets[2]
           after == fnRes.presets[1]
           dx == anchor.x - child.x
           dy == anchor.y - child.y
           d == distance(child, anchor)
           s == OrbitSpeed(anchor.MASS, d)
       IN  /\ fnRes = [SeedStore(fnArgs) EXCEPT !.presets[1].vx = after.vx,
                                                !.presets[1].vy = after.vy]
           /\ Near(after.vx - anchor.vx, Along(s, -dy, d), s \div 50 + 2)
           /\ Near(after.vy - anchor.vy, Along(s, dx, d), s \div 50 + 2)

\* an anchor down and to the right of the child (dx > 0, dy < 0), where angle
\* returns a negative value, and the anchor itself moving
C11_Witness ==
    /\ pc = "done"
    /\ fnArgs.fn = "assignParent"
    /\ fnArgs.q.x > fnArgs.p.x
    /\ fnArgs.q.y < fnArgs.p.y
    /\ fnArgs.speed # 0
    /\ fnRes.presets[1].vx > fnRes.presets[2].vx
    /\ fnRes.presets[1].vy > fnRes.presets[2].vy

\* C12: after A.assignBinary(B), for A and B at distinct positions and of
\* positive mass, mass_A * v_A = -(mass_B * v_B) in both components, wherever
\* B lies relative to A and whatever the velocities of A and B before the
\* call.  The momenta are compared per unit of the larger mass (k is the
\* ratio of the larger mass to the smaller): v_heavy = -(v_light / k), to
\* within 0.15, the rounding of a square root taken of a number kept to two
\* decimals (sqrt(0.01) = 0.1).
C12_BinaryMomentum ==
    (pc = "done" /\ fnArgs.fn = "assignBinary" /\ fnArgs.p # fnArgs.q) =>
       LET A == fnRes.presets[1]
           B == fnRes.presets[2]
           heavyA == DQuot(A.MASS, B.MASS) >= Scale
           k == IF heavyA THEN DQuot(A.MASS, B.MASS) ELSE DQuot(B.MASS, A.MASS)
           heavy == IF heavyA THEN A ELSE B
           light == IF heavyA THEN B ELSE A
           tol == (15 * Scale) \div 100
       IN  /\ DPositive(A.MASS) /\ DPositive(B.MASS)
           /\ Near(heavy.vx, -Div(light.vx, k), tol)
           /\ Near(heavy.vy, -Div(light.vy, k), tol)

\* a blue star and a red star, B up and to the left of A, both moving before
\* the call, and moving in opposite directions after it
C12_Witness ==
    /\ pc = "done"
    /\ fnArgs.fn = "assignBinary"
    /\ fnArgs.ta = "blue"
    /\ fnArgs.tb = "red"
    /\ fnArgs.speed # 0
    /\ fnArgs.q.x < fnArgs.p.x
    /\ fnArgs.q.y > fnArgs.p.y
    /\ fnRes.presets[1].vx < 0 /\ fnRes.presets[1].vy < 0
    /\ fnRes.presets[2].vx > 0 /\ fnRes.presets[2].vy > 0

(***************************************************************************)
(* updateAcceleration, called twice in a row on three bodies, the first n   *)
(* of them active                                                           *)
(***************************************************************************)
\* the three bodies of a call, all moving: a main-sequence star at p, a blue
\* star at q and a red star at one of two places
AccelStore(a) ==
    [NoBodies EXCEPT !.presets = <<Star(a.p.x, a.p.y, Num(3), 0, "main"),
                                   Star(a.q.x, a.q.y, Num(3), PI \div 2, "blue"),
                                   Star(a.r.x, a.r.y, Num(3), PI, "red")>>]

InitAccel ==
    /\ MainInit
    /\ pc = "args"
    /\ fnArgs \in [p : GridPoints, q : GridPoints,
                   r : {[x |-> Num(0), y |-> Num(0)], [x |-> Num(1), y |-> Num(-1)]},
                   this : 1..3, n : 0..3]
    /\ fnRes = <<>>

\* presets.at(this - 1).updateAcceleration()
FirstCall ==
    /\ pc = "args"
    /\ pc' = "once"
    /\ fnRes' = <<updateAcceleration(AccelStore(fnArgs), Refs("presets", fnArgs.n),
                                     Ref("presets", fnArgs.this)).O>>
    /\ UNCHANGED <<fnArgs, mainVars>>

\* the same call again, on what the first call left
SecondCall ==
    /\ pc = "once"
    /\ pc' = "twice"
    /\ fnRes' = Append(fnRes, updateAcceleration(fnRes[1], Refs("presets", fnArgs.n),
                                                 Ref("presets", fnArgs.this)).O)
    /\ UNCHANGED <<fnArgs, mainVars>>

NextAccel == FirstCall \/ SecondCall

SpecAccel == InitAccel /\ [][NextAccel]_vars

\* C13: b.updateAcceleration() yields the store it found but for b's own ax
\* and ay: b's position, velocity and mass, every field of every other body
\* and the four lists are as before (the active set is only read); and a
\* second call right after the first yields the same store, so the same
\* (ax, ay).
C13_AccelerationFrame ==
    /\ pc \in {"once", "twice"} =>
          fnRes[1] = [AccelStore(fnArgs) EXCEPT
                         !.presets[fnArgs.this].ax = fnRes[1].presets[fnArgs.this].ax,
                         !.presets[fnArgs.this].ay = fnRes[1].presets[fnArgs.this].ay]
    /\ pc = "twice" => fnRes[2] = fnRes[1]

\* all three bodies are active, none is where the caller is, and the two
\* calls left the caller with an acceleration that is not zero
C13_Witness ==
    /\ pc = "twice"
    /\ fnArgs.n = 3
    /\ fnArgs.this = 1
    /\ fnArgs.p # fnArgs.q
    /\ fnArgs.p # fnArgs.r
    /\ fnRes[2].presets[1].ax # 0
    /\ fnRes[2].presets[1].ay # 0
    /\ fnRes[2].presets[1].vx = Num(3)

(***************************************************************************)
(* The placement keys, on the steps of the simulation                       *)
(***************************************************************************)
\* the planet of key r or g as the constructor leaves it at the cursor
BarePlanets == {Planet(mouseX, mouseY, 0, 0, t[1], t[2], t[3], t[4]) :
                   t \in {PlanetKeys[k] : k \in DOMAIN PlanetKeys}}

C15_AllFinite ==
    \A b \in {Ref("presets", i) : i \in 1..Len(presets)}
               \cup {Ref("stars", i) : i \in 1..Len(stars)}
               \cup {Ref("planets", i) : i \in 1..Len(planets)}
               \cup {Ref("moons", i) : i \in 1..Len(moons)} :
       /\ IsFinite(Obj(Store, b).x) /\ IsFinite(Obj(Store, b).y)
       /\ IsFinite(Obj(Store, b).vx) /\ IsFinite(Obj(Store, b).vy)

====
